---- MODULE Spec2Model ----
(***************************************************************************)
(* Model of the adaptive read engine (src/io/mod.rs, read_to_end) and of   *)
(* the native string bridge (src/ffi/os_str.rs, OsString / OsStr).         *)
(***************************************************************************)
EXTENDS Integers, Sequences, FiniteSets, TLC

(* ---------------------------------------------------------------------- *)
(* Bounds of the model                                                     *)
(* ---------------------------------------------------------------------- *)
MaxPre == 1        \* longest pre-existing content of the destination buffer
MaxSlack == 1      \* largest spare capacity of the destination buffer at entry
MaxReads == 3      \* read calls that return Ok(n), n > 0, per invocation
MaxIntr == 2       \* read calls that return Err(Interrupted) per invocation
SmallChunk == 3    \* a short chunk size offered by the source

(* Program constant: the growth increment of read_to_end. *)
GROW == 32

Data == {1, 2}         \* byte values a source produces
Byte == {0, 1, 2}      \* byte values memory can hold

VARIABLES
    pc,         \* position in read_to_end: "start","loop","read","done","unwound"
    buf,        \* the destination Vec<u8>: its logical content (len = Len(buf))
    cap,        \* the destination Vec<u8>: its capacity
    start_len,  \* local start_len of read_to_end
    g_len,      \* Guard.len
    ret,        \* the value read_to_end returns
    zeroing,    \* Initializer.0 of r.initializer()
    pre,        \* history: content of the buffer at entry
    produced,   \* history: bytes the source has delivered through Ok(n), in order
    reads,      \* history: results of the read calls (n, or a negative code)
    os,         \* native string bridge: the owned native string under test
    out         \* native string bridge: result of the last operation

ioVars == <<pc, buf, cap, start_len, g_len, ret, zeroing, pre, produced, reads>>
osVars == <<os, out>>
vars == <<pc, buf, cap, start_len, g_len, ret, zeroing, pre, produced, reads, os, out>>

(* Codes of the non-Ok read results kept in reads. *)
INTERRUPTED == -1
OTHER_ERROR == -2
PANIC == -3
AGAIN == -4    \* further Interrupted results, not recorded one by one

RECURSIVE SeqsUpTo(_, _)
SeqsUpTo(S, n) ==
    IF n = 0 THEN {<<>>}
    ELSE LET shorter == SeqsUpTo(S, n - 1)
         IN  shorter \cup {Append(s, x) : s \in {t \in shorter : Len(t) = n - 1}, x \in S}

Max(a, b) == IF a >= b THEN a ELSE b
Min(a, b) == IF a <= b THEN a ELSE b

RECURSIVE SumPos(_)
SumPos(s) ==
    IF s = <<>> THEN 0
    ELSE (IF Head(s) > 0 THEN Head(s) ELSE 0) + SumPos(Tail(s))

Fill(n, b) == [i \in 1..n |-> b]

(* ---------------------------------------------------------------------- *)
(* Vec<u8> operations used by read_to_end                                  *)
(* ---------------------------------------------------------------------- *)

\* Vec::reserve(additional): amortized growth, capacity never shrinks.
Vec_reserve(len, capacity, additional) ==
    IF capacity - len >= additional THEN capacity
    ELSE Max(2 * capacity, len + additional)

\* Variant of Initializer_initialize that zeroes the whole buffer instead of
\* the region after from.
Initializer_initialize_Whole(init, b, from) ==
    IF init THEN [i \in 1..Len(b) |-> 0] ELSE b

\* Variant of Initializer_initialize with the test of should_initialize
\* inverted.
Initializer_initialize_Inverted(init, b, from) ==
    IF ~init THEN [i \in 1..Len(b) |-> IF i > from THEN 0 ELSE b[i]]
    ELSE b

\* Initializer::initialize on the region b[from+1 ..]: zero it when the
\* initializer is zeroing, leave it as it is otherwise.
Initializer_initialize(init, b, from) ==
    IF init THEN [i \in 1..Len(b) |-> IF i > from THEN 0 ELSE b[i]]
    ELSE b

\* read writes the bytes of a chunk to the head of the region b[from+1 ..].
WriteRegion(b, from, chunk) ==
    [i \in 1..Len(b) |->
        IF i > from /\ i <= from + Len(chunk) THEN chunk[i - from] ELSE b[i]]

\* The n bytes a source delivers after it has delivered d bytes: the stream
\* alternates between the two data values.
ChunkBytes(d, n) == [j \in 1..n |-> ((d + j) % 2) + 1]

(* ---------------------------------------------------------------------- *)
(* read_to_end                                                             *)
(* ---------------------------------------------------------------------- *)

InitIo ==
    /\ pc = "start"
    /\ pre \in SeqsUpTo(Data, MaxPre)
    /\ buf = pre
    /\ cap \in Len(pre)..(Len(pre) + MaxSlack)
    /\ zeroing \in BOOLEAN
    /\ start_len = 0
    /\ g_len = 0
    /\ ret = [kind |-> "none"]
    /\ produced = <<>>
    /\ reads = <<>>

\* Variant of Enter whose guard starts at length 0.
Enter_GuardAtZero ==
    /\ pc = "start"
    /\ start_len' = Len(buf)
    /\ g_len' = 0
    /\ pc' = "loop"
    /\ UNCHANGED <<buf, cap, ret, zeroing, pre, produced, reads, os, out>>

\* let start_len = buf.len(); let mut g = Guard { len: buf.len(), buf: buf };
Enter ==
    /\ pc = "start"
    /\ start_len' = Len(buf)
    /\ g_len' = Len(buf)
    /\ pc' = "loop"
    /\ UNCHANGED <<buf, cap, ret, zeroing, pre, produced, reads, os, out>>

\* Variant of Grow without the test g.len == g.buf.len(): grows in every
\* iteration.
Grow_Unconditional ==
    /\ pc = "loop"
    /\ LET capacity == Vec_reserve(Len(buf), cap, GROW)
       IN  /\ cap' = capacity
           /\ \E garbage \in Byte :
                buf' = Initializer_initialize(zeroing,
                           buf \o Fill(capacity - Len(buf), garbage), g_len)
    /\ pc' = "read"
    /\ UNCHANGED <<start_len, g_len, ret, zeroing, pre, produced, reads, os, out>>

\* if g.len == g.buf.len() { reserve(32); set_len(capacity); initialize(..) }
\* set_len exposes memory the allocator has not initialised: its content is
\* any byte value.
Grow ==
    /\ pc = "loop"
    /\ g_len = Len(buf)
    /\ LET capacity == Vec_reserve(Len(buf), cap, GROW)
       IN  /\ cap' = capacity
           /\ \E garbage \in Byte :
                buf' = Initializer_initialize(zeroing,
                           buf \o Fill(capacity - Len(buf), garbage), g_len)
    /\ pc' = "read"
    /\ UNCHANGED <<start_len, g_len, ret, zeroing, pre, produced, reads, os, out>>

NoGrow ==
    /\ pc = "loop"
    /\ g_len # Len(buf)
    /\ pc' = "read"
    /\ UNCHANGED <<buf, cap, start_len, g_len, ret, zeroing, pre, produced, reads, os, out>>

\* Variant of ReadOkZero without the Ok(0) arm: a zero count is added to
\* g.len like any other and the loop goes on.
ReadOkZero_Continues ==
    /\ pc = "read"
    /\ reads' = IF reads # <<>> /\ reads[Len(reads)] = 0 THEN reads
                ELSE Append(reads, 0)
    /\ pc' = "loop"
    /\ UNCHANGED <<buf, cap, start_len, g_len, ret, zeroing, pre, produced, os, out>>

\* Variant of ReadOkZero whose result is g.len, not g.len - start_len.
ReadOkZero_ReturnsLen ==
    /\ pc = "read"
    /\ ret' = [kind |-> "ok", n |-> g_len]
    /\ reads' = Append(reads, 0)
    /\ pc' = "done"
    /\ UNCHANGED <<buf, cap, start_len, g_len, zeroing, pre, produced, os, out>>

\* r.read(&mut g.buf[g.len..]) returns Ok(0)
ReadOkZero ==
    /\ pc = "read"
    /\ ret' = [kind |-> "ok", n |-> g_len - start_len]
    /\ reads' = Append(reads, 0)
    /\ pc' = "done"
    /\ UNCHANGED <<buf, cap, start_len, g_len, zeroing, pre, produced, os, out>>

\* r.read(&mut g.buf[g.len..]) returns Ok(n), n > 0: g.len += n
ReadOkN ==
    /\ pc = "read"
    /\ Cardinality({i \in 1..Len(reads) : reads[i] > 0}) < MaxReads
    /\ \E n \in {1, SmallChunk, Len(buf) - g_len} :
        /\ n >= 1
        /\ n <= Len(buf) - g_len
        /\ buf' = WriteRegion(buf, g_len, ChunkBytes(Len(produced), n))
        /\ produced' = produced \o ChunkBytes(Len(produced), n)
        /\ g_len' = g_len + n
        /\ reads' = Append(reads, n)
    /\ pc' = "loop"
    /\ UNCHANGED <<cap, start_len, ret, zeroing, pre, os, out>>

\* Variant of ReadInterrupted without the Interrupted arm: the error is returned.
ReadInterrupted_Returned ==
    /\ pc = "read"
    /\ Cardinality({i \in 1..Len(reads) : reads[i] = INTERRUPTED}) < MaxIntr
    /\ ret' = [kind |-> "err", e |-> INTERRUPTED]
    /\ reads' = Append(reads, INTERRUPTED)
    /\ pc' = "done"
    /\ UNCHANGED <<buf, cap, start_len, g_len, zeroing, pre, produced, os, out>>

\* r.read(..) returns Err(e), e.kind() == ErrorKind::Interrupted
ReadInterrupted ==
    /\ pc = "read"
    /\ Cardinality({i \in 1..Len(reads) : reads[i] = INTERRUPTED}) < MaxIntr
    /\ reads' = Append(reads, INTERRUPTED)
    /\ pc' = "loop"
    /\ UNCHANGED <<buf, cap, start_len, g_len, ret, zeroing, pre, produced, os, out>>

\* r.read(..) returns Err(Interrupted) once more, any number of times in a
\* row: the code counts no retries. The history keeps the first MaxIntr such
\* results and one AGAIN for all that follow them.
ReadInterruptedAgain ==
    /\ pc = "read"
    /\ Cardinality({i \in 1..Len(reads) : reads[i] = INTERRUPTED}) = MaxIntr
    /\ reads[Len(reads)] \in {INTERRUPTED, AGAIN}
    /\ reads' = IF reads[Len(reads)] = AGAIN THEN reads ELSE Append(reads, AGAIN)
    /\ pc' = "loop"
    /\ UNCHANGED <<buf, cap, start_len, g_len, ret, zeroing, pre, produced, os, out>>

\* r.read(..) returns Err(e) of any other kind
ReadErr ==
    /\ pc = "read"
    /\ ret' = [kind |-> "err", e |-> OTHER_ERROR]
    /\ reads' = Append(reads, OTHER_ERROR)
    /\ pc' = "done"
    /\ UNCHANGED <<buf, cap, start_len, g_len, zeroing, pre, produced, os, out>>

\* r.read(..) panics, possibly after writing into the region; the stack
\* unwinds through read_to_end and g is dropped (Guard has no Drop impl).
ReadPanic ==
    /\ pc = "read"
    /\ \E n \in {0, 1} :
        buf' = WriteRegion(buf, g_len, ChunkBytes(Len(produced), n))
    /\ reads' = Append(reads, PANIC)
    /\ pc' = "unwound"
    /\ UNCHANGED <<cap, start_len, g_len, ret, zeroing, pre, produced, os, out>>

(* ---------------------------------------------------------------------- *)
(* Native string bridge: the backend (a byte-oriented, UTF-8 backend)      *)
(* ---------------------------------------------------------------------- *)
MaxChars == 2      \* longest Unicode string, in code points
MaxUnits == 3      \* longest native string built directly from raw units

Chars == {65, 233}              \* 'A' (1 byte in UTF-8), U+00E9 (2 bytes)
Units == {65, 195, 169, 255}    \* 'A', the two bytes of U+00E9, an invalid byte

Strings == SeqsUpTo(Chars, MaxChars)
RawStrings == SeqsUpTo(Units, MaxUnits)

Invalid == <<-1>>   \* the result of decoding a byte sequence that is not UTF-8

IsCont(b) == b >= 128 /\ b <= 191

\* UTF-8 encoding of one code point.
EncodeChar(c) ==
    IF c < 128 THEN <<c>>
    ELSE IF c < 2048 THEN <<192 + (c \div 64), 128 + (c % 64)>>
    ELSE IF c < 65536 THEN
        <<224 + (c \div 4096), 128 + ((c \div 64) % 64), 128 + (c % 64)>>
    ELSE <<240 + (c \div 262144), 128 + ((c \div 4096) % 64),
           128 + ((c \div 64) % 64), 128 + (c % 64)>>

RECURSIVE Utf8Encode(_)
Utf8Encode(s) ==
    IF s = <<>> THEN <<>> ELSE EncodeChar(Head(s)) \o Utf8Encode(Tail(s))

\* UTF-8 decoding with validation: the code points, or Invalid.
RECURSIVE Utf8Decode(_)
Utf8Decode(b) ==
    IF b = <<>> THEN <<>>
    ELSE
      LET b1 == b[1]
          n == IF b1 < 128 THEN 1
               ELSE IF b1 >= 194 /\ b1 <= 223 THEN 2
               ELSE IF b1 >= 224 /\ b1 <= 239 THEN 3
               ELSE IF b1 >= 240 /\ b1 <= 244 THEN 4
               ELSE 0
      IN
        IF n = 0 \/ Len(b) < n THEN Invalid
        ELSE IF \E i \in 2..n : ~IsCont(b[i]) THEN Invalid
        ELSE
          LET c == IF n = 1 THEN b1
                   ELSE IF n = 2 THEN (b1 - 192) * 64 + (b[2] - 128)
                   ELSE IF n = 3 THEN
                        (b1 - 224) * 4096 + (b[2] - 128) * 64 + (b[3] - 128)
                   ELSE (b1 - 240) * 262144 + (b[2] - 128) * 4096
                        + (b[3] - 128) * 64 + (b[4] - 128)
              wellFormed ==
                   /\ (n = 3 => c >= 2048 /\ ~(c >= 55296 /\ c <= 57343))
                   /\ (n = 4 => c >= 65536 /\ c <= 1114111)
              rest == Utf8Decode(SubSeq(b, n + 1, Len(b)))
          IN  IF ~wellFormed \/ rest = Invalid THEN Invalid
              ELSE <<c>> \o rest

REPLACEMENT_CHARACTER == 65533

\* The second byte a lead byte b1 of a multi-byte sequence accepts.
SecondOk(b1, b2) ==
    IF b1 = 224 THEN b2 >= 160 /\ b2 <= 191
    ELSE IF b1 = 237 THEN b2 >= 128 /\ b2 <= 159
    ELSE IF b1 = 240 THEN b2 >= 144 /\ b2 <= 191
    ELSE IF b1 = 244 THEN b2 >= 128 /\ b2 <= 143
    ELSE IsCont(b2)

\* Lossy UTF-8 decoding: every well-formed sequence gives its code point,
\* every maximal ill-formed part gives one U+FFFD.
RECURSIVE Utf8DecodeLossy(_)
Utf8DecodeLossy(b) ==
    IF b = <<>> THEN <<>>
    ELSE
      LET b1 == b[1]
          n == IF b1 < 128 THEN 1
               ELSE IF b1 >= 194 /\ b1 <= 223 THEN 2
               ELSE IF b1 >= 224 /\ b1 <= 239 THEN 3
               ELSE IF b1 >= 240 /\ b1 <= 244 THEN 4
               ELSE 0
          ok2 == n >= 2 /\ Len(b) >= 2 /\ SecondOk(b1, b[2])
          ok3 == ok2 /\ n >= 3 /\ Len(b) >= 3 /\ IsCont(b[3])
          ok4 == ok3 /\ n >= 4 /\ Len(b) >= 4 /\ IsCont(b[4])
          good == IF ok4 THEN 4 ELSE IF ok3 THEN 3 ELSE IF ok2 THEN 2 ELSE 1
          c == IF n = 1 THEN b1
               ELSE IF n = 2 THEN (b1 - 192) * 64 + (b[2] - 128)
               ELSE IF n = 3 THEN
                    (b1 - 224) * 4096 + (b[2] - 128) * 64 + (b[3] - 128)
               ELSE (b1 - 240) * 262144 + (b[2] - 128) * 4096
                    + (b[3] - 128) * 64 + (b[4] - 128)
      IN  IF n > 0 /\ good = n
          THEN <<c>> \o Utf8DecodeLossy(SubSeq(b, n + 1, Len(b)))
          ELSE <<REPLACEMENT_CHARACTER>>
               \o Utf8DecodeLossy(SubSeq(b, good + 1, Len(b)))

\* traits::OsStr::to_string_lossy: Cow<str>, borrowed when the units are
\* valid, owned with U+FFFD in place of the invalid parts otherwise.
InnerStr_to_string_lossy(b) ==
    IF Utf8Decode(b) # Invalid
    THEN [borrowed |-> TRUE, s |-> Utf8Decode(b)]
    ELSE [borrowed |-> FALSE, s |-> Utf8DecodeLossy(b)]

\* traits::OsString::from_string: the UTF-8 bytes of s, in a buffer that
\* keeps the allocation of s (slack units of spare capacity).
Inner_from_string(s, slack) ==
    [bytes |-> Utf8Encode(s), cap |-> Len(Utf8Encode(s)) + slack]

\* traits::OsString::into_string: Ok(decoded) or Err(self).
Inner_into_string(inner) ==
    IF Utf8Decode(inner.bytes) = Invalid
    THEN [ok |-> FALSE, err |-> inner]
    ELSE [ok |-> TRUE, s |-> Utf8Decode(inner.bytes)]

\* traits::OsStr::from_str: the borrowed native view of a Unicode string.
InnerStr_from_str(s) == Utf8Encode(s)

\* traits::OsStr::to_str
InnerStr_to_str(b) ==
    IF Utf8Decode(b) = Invalid THEN [some |-> FALSE]
    ELSE [some |-> TRUE, s |-> Utf8Decode(b)]

\* traits::OsStr::as_bytes: a borrowed native string is modelled by its units.
InnerStr_as_bytes(b) == b

\* traits::OsString::as_slice
Inner_as_slice(inner) == inner.bytes

\* Vec::reserve_exact(additional): grows to exactly len + additional.
Vec_reserve_exact(len, capacity, additional) ==
    IF capacity - len >= additional THEN capacity ELSE len + additional

\* traits::OsString::with_capacity: an empty buffer of exactly that capacity.
Inner_with_capacity(capacity) == [bytes |-> <<>>, cap |-> capacity]

\* traits::OsString::push_slice: Vec::extend_from_slice, reserve then append.
Inner_push_slice(inner, s) ==
    [bytes |-> inner.bytes \o s,
     cap |-> Vec_reserve(Len(inner.bytes), inner.cap, Len(s))]

\* traits::OsString::clear: the length becomes 0, the allocation is kept.
Inner_clear(inner) == [bytes |-> <<>>, cap |-> inner.cap]

\* traits::OsString::capacity
Inner_capacity(inner) == inner.cap

\* traits::OsString::reserve
Inner_reserve(inner, additional) ==
    [bytes |-> inner.bytes,
     cap |-> Vec_reserve(Len(inner.bytes), inner.cap, additional)]

\* traits::OsString::reserve_exact
Inner_reserve_exact(inner, additional) ==
    [bytes |-> inner.bytes,
     cap |-> Vec_reserve_exact(Len(inner.bytes), inner.cap, additional)]

\* traits::OsString::shrink_to_fit
Inner_shrink_to_fit(inner) == [bytes |-> inner.bytes, cap |-> Len(inner.bytes)]

\* traits::OsStr::len, traits::OsStr::is_empty
InnerStr_len(b) == Len(b)
InnerStr_is_empty(b) == Len(b) = 0

\* traits::OsStr::to_owned: a new buffer that holds a copy of the units.
InnerStr_to_owned(b) == [bytes |-> b, cap |-> Len(b)]

\* A boxed or counted string is its units and the storage that holds them:
\* "self" is the buffer the receiver owned, "fresh" an allocation the
\* conversion made and copied the units into.

\* traits::OsString::into_box(self): takes the buffer by value and keeps it,
\* cut to the units in use.
Inner_into_box(inner) == [bytes |-> inner.bytes, storage |-> "self"]

\* traits::OsString::from_box: the box's storage becomes the buffer.
Inner_from_box(boxed) == [bytes |-> boxed.bytes, cap |-> Len(boxed.bytes)]

\* traits::OsString::into_arc(&self), traits::OsString::into_rc(&self): the
\* receiver is only borrowed, its buffer stays its own; the counted value
\* lives in an allocation of its own.
Inner_into_arc(inner) == [bytes |-> inner.bytes, storage |-> "fresh"]
Inner_into_rc(inner) == [bytes |-> inner.bytes, storage |-> "fresh"]

\* traits::OsStr::into_box(&self), into_arc(&self), into_rc(&self)
InnerStr_into_box(b) == [bytes |-> b, storage |-> "fresh"]
InnerStr_into_arc(b) == [bytes |-> b, storage |-> "fresh"]
InnerStr_into_rc(b) == [bytes |-> b, storage |-> "fresh"]

\* traits::OsStr::empty_box
InnerStr_empty_box == [bytes |-> <<>>, storage |-> "fresh"]

(* ---------------------------------------------------------------------- *)
(* Native string bridge: OsString / OsStr (src/ffi/os_str.rs)              *)
(* ---------------------------------------------------------------------- *)

\* An OsString that has been moved out of.
Moved == [moved |-> TRUE]

\* Variant of OsString_from that drops the content of s.
OsString_from_Dropped(s, slack) == [inner |-> Inner_from_string(<<>>, slack)]

\* impl From<String> for OsString
OsString_from(s, slack) == [inner |-> Inner_from_string(s, slack)]

\* OsString::new
OsString_new == [inner |-> Inner_from_string(<<>>, 0)]

\* impl FromInner<STD::OsString> for OsString
OsString_from_inner(inner) == [inner |-> inner]

\* Variant of OsString_into_string whose error payload is a fresh OsString.
OsString_into_string_Fresh(self) ==
    LET r == Inner_into_string(self.inner)
    IN  IF r.ok THEN r ELSE [ok |-> FALSE, err |-> [inner |-> Inner_from_string(<<>>, 0)]]

\* OsString::into_string
OsString_into_string(self) ==
    LET r == Inner_into_string(self.inner)
    IN  IF r.ok THEN r ELSE [ok |-> FALSE, err |-> [inner |-> r.err]]

\* Deref for OsString (via Index<RangeFull>): the borrowed view
OsString_deref(self) == Inner_as_slice(self.inner)

\* OsStr::bytes
OsStr_bytes(self) == InnerStr_as_bytes(self)

\* OsStr::to_str
OsStr_to_str(self) == InnerStr_to_str(self)

\* impl AsRef<OsStr> for str (OsStr::new(s))
Str_as_ref(s) == InnerStr_from_str(s)

\* Variant of OsString_with_capacity that ignores the requested capacity.
OsString_with_capacity_Ignored(capacity) == [inner |-> Inner_from_string(<<>>, 0)]

\* OsString::with_capacity
OsString_with_capacity(capacity) == [inner |-> Inner_with_capacity(capacity)]

\* Variant of OsString_push that replaces the content instead of extending it.
OsString_push_Overwrite(self, s) ==
    [inner |-> Inner_push_slice(Inner_clear(self.inner), s)]

\* Variant of OsString_push that builds the result in a new buffer of the
\* exact size.
OsString_push_Exact(self, s) == [inner |-> InnerStr_to_owned(self.inner.bytes \o s)]

\* OsString::push
OsString_push(self, s) == [inner |-> Inner_push_slice(self.inner, s)]

\* Variant of OsString_clear that replaces self by a new empty string.
OsString_clear_Replaced(self) == [inner |-> Inner_from_string(<<>>, 0)]

\* OsString::clear
OsString_clear(self) == [inner |-> Inner_clear(self.inner)]

\* OsString::capacity
OsString_capacity(self) == Inner_capacity(self.inner)

\* Variant of OsString_reserve that takes its argument for the total capacity.
OsString_reserve_Total(self, additional) ==
    [inner |-> Inner_reserve(self.inner,
        IF additional > Len(self.inner.bytes)
        THEN additional - Len(self.inner.bytes) ELSE 0)]

\* OsString::reserve
OsString_reserve(self, additional) == [inner |-> Inner_reserve(self.inner, additional)]

\* OsString::reserve_exact
OsString_reserve_exact(self, additional) ==
    [inner |-> Inner_reserve_exact(self.inner, additional)]

\* OsString::shrink_to_fit
OsString_shrink_to_fit(self) == [inner |-> Inner_shrink_to_fit(self.inner)]

\* OsStr::len, OsStr::is_empty
OsStr_len(self) == InnerStr_len(self)
OsStr_is_empty(self) == InnerStr_is_empty(self)

\* Variant of OsStr_to_string_lossy that converts strictly.
OsStr_to_string_lossy_Strict(self) == [borrowed |-> TRUE, s |-> Utf8Decode(self)]

\* OsStr::to_string_lossy
OsStr_to_string_lossy(self) == InnerStr_to_string_lossy(self)

\* OsStr::to_os_string
OsStr_to_os_string(self) == [inner |-> InnerStr_to_owned(self)]

\* ToOwned for OsStr: to_owned
OsStr_to_owned(self) == OsStr_to_os_string(self)

\* Variant of OsStr_clone_into that assigns a new owned copy to the target.
OsStr_clone_into_Assigned(self, target) == OsStr_to_owned(self)

\* ToOwned for OsStr: clone_into, the target after the call
OsStr_clone_into(self, target) == OsString_push(OsString_clear(target), self)

\* Variant of OsString_into_boxed_os_str that boxes a borrowed view of self.
OsString_into_boxed_os_str_Copied(self) == InnerStr_into_box(Inner_as_slice(self.inner))

\* OsString::into_boxed_os_str: the pointer cast keeps the backend's box
OsString_into_boxed_os_str(self) == Inner_into_box(self.inner)

\* Variant of OsStr_into_os_string that drops the box.
OsStr_into_os_string_Dropped(boxed) == [inner |-> Inner_from_string(<<>>, 0)]

\* OsStr::into_os_string (self: Box<OsStr>)
OsStr_into_os_string(boxed) == [inner |-> Inner_from_box(boxed)]

\* From<&OsStr> for Box<OsStr>
Box_from_OsStr(s) == InnerStr_into_box(s)

\* From<Box<OsStr>> for OsString, From<OsString> for Box<OsStr>
OsString_from_Box(boxed) == OsStr_into_os_string(boxed)
Box_from_OsString(s) == OsString_into_boxed_os_str(s)

\* Into<Arc<OsStr>> for OsString and for &OsStr
OsString_into_Arc(self) == Inner_into_arc(self.inner)
OsStr_into_Arc(self) == InnerStr_into_arc(self)

\* Into<Rc<OsStr>> for OsString and for &OsStr
OsString_into_Rc(self) == Inner_into_rc(self.inner)
OsStr_into_Rc(self) == InnerStr_into_rc(self)

\* Deref of Box<OsStr>, Rc<OsStr>, Arc<OsStr>: the units
Shared_deref(p) == p.bytes

\* OsStr::new(s) for s: &str
OsStr_new(s) == Str_as_ref(s)

\* Default for OsString
OsString_default == OsString_new

\* Default for Box<OsStr>
Box_default == InnerStr_empty_box

\* Variant of OsStr_default that borrows a string of one character.
OsStr_default_NonEmpty == OsStr_new(<<65>>)

\* Default for &OsStr
OsStr_default == OsStr_new(<<>>)

(* Comparison of byte slices (core::slice, core::cmp) *)
U8_cmp(x, y) == IF x < y THEN "Less" ELSE IF x = y THEN "Equal" ELSE "Greater"

\* Ord for [u8]: the first unequal pair of elements decides, then the lengths.
RECURSIVE Slice_cmp(_, _)
Slice_cmp(a, b) ==
    IF a = <<>> \/ b = <<>> THEN U8_cmp(Len(a), Len(b))
    ELSE IF U8_cmp(Head(a), Head(b)) # "Equal" THEN U8_cmp(Head(a), Head(b))
    ELSE Slice_cmp(Tail(a), Tail(b))

Slice_partial_cmp(a, b) == [some |-> TRUE, ord |-> Slice_cmp(a, b)]
Slice_eq(a, b) == Len(a) = Len(b) /\ \A i \in 1..Len(a) : a[i] = b[i]

\* The provided methods of PartialOrd, in terms of partial_cmp.
Provided_lt(pc0) == pc0.some /\ pc0.ord = "Less"
Provided_le(pc0) == pc0.some /\ pc0.ord \in {"Less", "Equal"}
Provided_gt(pc0) == pc0.some /\ pc0.ord = "Greater"
Provided_ge(pc0) == pc0.some /\ pc0.ord \in {"Greater", "Equal"}

\* impl PartialEq for OsStr
OsStr_eq(self, other) == Slice_eq(OsStr_bytes(self), OsStr_bytes(other))

\* impl PartialOrd for OsStr
OsStr_partial_cmp(self, other) ==
    Slice_partial_cmp(OsStr_bytes(self), OsStr_bytes(other))
\* Variant of OsStr_lt that calls le on the byte slices.
OsStr_lt_AsLe(self, other) ==
    Provided_le(Slice_partial_cmp(OsStr_bytes(self), OsStr_bytes(other)))
OsStr_lt(self, other) ==
    Provided_lt(Slice_partial_cmp(OsStr_bytes(self), OsStr_bytes(other)))
OsStr_le(self, other) ==
    Provided_le(Slice_partial_cmp(OsStr_bytes(self), OsStr_bytes(other)))
OsStr_gt(self, other) ==
    Provided_gt(Slice_partial_cmp(OsStr_bytes(self), OsStr_bytes(other)))
OsStr_ge(self, other) ==
    Provided_ge(Slice_partial_cmp(OsStr_bytes(self), OsStr_bytes(other)))

\* impl Ord for OsStr
OsStr_cmp(self, other) == Slice_cmp(OsStr_bytes(self), OsStr_bytes(other))

\* impl PartialEq<str> for OsStr, impl PartialEq<OsStr> for str
OsStr_eq_str(self, other) == OsStr_eq(self, Str_as_ref(other))
Str_eq_OsStr(self, other) == OsStr_eq(other, Str_as_ref(self))

\* Variant of OsStr_partial_cmp_str with the operands exchanged.
OsStr_partial_cmp_str_Swapped(self, other) == OsStr_partial_cmp(Str_as_ref(other), self)

\* impl PartialOrd<str> for OsStr
OsStr_partial_cmp_str(self, other) == OsStr_partial_cmp(self, Str_as_ref(other))

\* impl PartialEq for OsString
OsString_eq(self, other) == OsStr_eq(OsString_deref(self), OsString_deref(other))

\* impl PartialEq<str> for OsString, impl PartialEq<OsString> for str
OsString_eq_str(self, other) == OsStr_eq_str(OsString_deref(self), other)
Str_eq_OsString(self, other) == OsStr_eq_str(OsString_deref(other), self)

\* impl PartialOrd for OsString
OsString_partial_cmp(self, other) ==
    OsStr_partial_cmp(OsString_deref(self), OsString_deref(other))
OsString_lt(self, other) == OsStr_lt(OsString_deref(self), OsString_deref(other))
OsString_le(self, other) == OsStr_le(OsString_deref(self), OsString_deref(other))
OsString_gt(self, other) == OsStr_gt(OsString_deref(self), OsString_deref(other))
OsString_ge(self, other) == OsStr_ge(OsString_deref(self), OsString_deref(other))

\* impl PartialOrd<str> for OsString
OsString_partial_cmp_str(self, other) ==
    OsStr_partial_cmp_str(OsString_deref(self), other)

\* impl Ord for OsString
OsString_cmp(self, other) == OsStr_cmp(OsString_deref(self), OsString_deref(other))

\* impl_cmp!(OsString, OsStr) and impl_cmp!(OsString, &OsStr)
OsString_eq_OsStr(self, other) == OsStr_eq(OsString_deref(self), other)
OsStr_eq_OsString(self, other) == OsStr_eq(self, OsString_deref(other))
OsString_partial_cmp_OsStr(self, other) ==
    OsStr_partial_cmp(OsString_deref(self), other)
OsStr_partial_cmp_OsString(self, other) ==
    OsStr_partial_cmp(self, OsString_deref(other))

(* Hashing: a Hasher is modelled by the sequence of values written to it,  *)
(* of which its result is a function.                                      *)
\* Hash for [u8]: the length, then the elements.
Slice_hash(b, state) == state \o <<Len(b)>> \o b

\* impl Hash for OsStr
OsStr_hash(self, state) == Slice_hash(OsStr_bytes(self), state)

\* Variant of OsString_hash that hashes the fields of the owned buffer.
OsString_hash_Fields(self, state) ==
    state \o <<self.inner.cap, Len(self.inner.bytes)>> \o self.inner.bytes

\* impl Hash for OsString
OsString_hash(self, state) == OsStr_hash(OsString_deref(self), state)

(* ---------------------------------------------------------------------- *)
(* Native string bridge: operations on the owned native string os          *)
(* ---------------------------------------------------------------------- *)
MaxStrSlack == 1   \* largest spare capacity of a converted String
MaxWithCap == 2    \* largest argument of with_capacity
MaxReserve == 2    \* largest argument of reserve and reserve_exact
MaxOsLen == 4      \* pushes keep the owned string at most this long
MaxCap == 8        \* growth keeps the capacity at most this large

\* The native strings pushed: every string of at most one unit, and the
\* native form of every Unicode string.
PushArgs == {b \in RawStrings : Len(b) <= 1} \cup {InnerStr_from_str(s) : s \in Strings}

InitOs ==
    /\ os = OsString_new
    /\ out = [kind |-> "new"]

\* let os = OsString::from(s): os is bound once, in place of the initial value
OsFromString ==
    /\ out.kind = "new"
    /\ \E s \in Strings, slack \in 0..MaxStrSlack :
        /\ os' = OsString_from(s, slack)
        /\ out' = [kind |-> "from_string", s |-> s]
    /\ UNCHANGED ioVars

\* let os = OsString::from_inner(buf), buf any native string of the backend
OsFromInner ==
    /\ out.kind = "new"
    /\ \E b \in RawStrings, slack \in 0..MaxStrSlack :
        /\ os' = OsString_from_inner([bytes |-> b, cap |-> Len(b) + slack])
        /\ out' = [kind |-> "from_inner"]
    /\ UNCHANGED ioVars

\* os.into_string(): consumes os
OsIntoString ==
    /\ os # Moved
    /\ out' = [kind |-> "into_string", self |-> os,
               after |-> IF out.kind = "from_string" THEN out ELSE [kind |-> out.kind],
               res |-> OsString_into_string(os)]
    /\ os' = Moved
    /\ UNCHANGED ioVars

\* os compared with another native string other, in every form the code offers
\* (a comparison leaves os as it is, so it is taken once per constructed value)
OsCompare ==
    /\ os # Moved
    /\ out.kind \in {"new", "from_string", "from_inner"}
    /\ \E b \in RawStrings :
        LET other == OsString_from_inner([bytes |-> b, cap |-> Len(b)])
            a == OsString_deref(os)
        IN  out' = [kind |-> "cmp", self |-> os, other |-> other,
                    str_eq |-> OsStr_eq(a, b),
                    str_pcmp |-> OsStr_partial_cmp(a, b),
                    str_lt |-> OsStr_lt(a, b),
                    str_le |-> OsStr_le(a, b),
                    str_gt |-> OsStr_gt(a, b),
                    str_ge |-> OsStr_ge(a, b),
                    str_cmp |-> OsStr_cmp(a, b),
                    string_eq |-> OsString_eq(os, other),
                    string_pcmp |-> OsString_partial_cmp(os, other),
                    string_lt |-> OsString_lt(os, other),
                    string_le |-> OsString_le(os, other),
                    string_gt |-> OsString_gt(os, other),
                    string_ge |-> OsString_ge(os, other),
                    string_cmp |-> OsString_cmp(os, other),
                    mixed_eq |-> OsString_eq_OsStr(os, b),
                    mixed_eq_rev |-> OsStr_eq_OsString(a, other),
                    mixed_pcmp |-> OsString_partial_cmp_OsStr(os, b),
                    mixed_pcmp_rev |-> OsStr_partial_cmp_OsString(a, other),
                    str_hash |-> OsStr_hash(a, <<>>),
                    str_hash_other |-> OsStr_hash(b, <<>>),
                    string_hash |-> OsString_hash(os, <<>>),
                    string_hash_other |-> OsString_hash(other, <<>>)]
    /\ UNCHANGED os
    /\ UNCHANGED ioVars

\* os compared with a Unicode string s, in every form the code offers
OsCompareStr ==
    /\ os # Moved
    /\ out.kind \in {"new", "from_string", "from_inner"}
    /\ \E s \in Strings :
        LET a == OsString_deref(os)
        IN  out' = [kind |-> "cmp_str", self |-> os, s |-> s,
                    str_eq |-> OsStr_eq_str(a, s),
                    str_eq_rev |-> Str_eq_OsStr(s, a),
                    str_pcmp |-> OsStr_partial_cmp_str(a, s),
                    string_eq |-> OsString_eq_str(os, s),
                    string_eq_rev |-> Str_eq_OsString(s, os),
                    string_pcmp |-> OsString_partial_cmp_str(os, s)]
    /\ UNCHANGED os
    /\ UNCHANGED ioVars

\* let os = OsString::with_capacity(n)
OsWithCapacity ==
    /\ out.kind = "new"
    /\ \E n \in 0..MaxWithCap :
        /\ os' = OsString_with_capacity(n)
        /\ out' = [kind |-> "with_capacity", n |-> n]
    /\ UNCHANGED ioVars

\* os.push(s); run counts the single-unit pushes made in sequence onto a
\* string that was constructed empty; wc is the argument of with_capacity when
\* only pushes were made since (-1 otherwise)
OsPush ==
    /\ os # Moved
    /\ \E s \in PushArgs :
        /\ Len(os.inner.bytes) + Len(s) <= MaxOsLen
        /\ OsString_capacity(OsString_push(os, s)) <= MaxCap
        /\ os' = OsString_push(os, s)
        /\ out' = [kind |-> "push", s |-> s, before |-> os,
                   run |-> IF Len(s) # 1 THEN 0
                           ELSE IF out.kind \in {"new", "with_capacity"} THEN 1
                           ELSE IF out.kind = "push" /\ out.run > 0 THEN out.run + 1
                           ELSE 0,
                   wc |-> IF out.kind = "with_capacity" THEN out.n
                          ELSE IF out.kind = "push" THEN out.wc
                          ELSE -1]
    /\ UNCHANGED ioVars

\* os.clear()
OsClear ==
    /\ os # Moved
    /\ os' = OsString_clear(os)
    /\ out' = [kind |-> "clear", before |-> os]
    /\ UNCHANGED ioVars

\* os.reserve(n)
OsReserve ==
    /\ os # Moved
    /\ \E n \in 0..MaxReserve :
        /\ OsString_capacity(OsString_reserve(os, n)) <= MaxCap
        /\ os' = OsString_reserve(os, n)
        /\ out' = [kind |-> "reserve", n |-> n, before |-> os]
    /\ UNCHANGED ioVars

\* os.reserve_exact(n)
OsReserveExact ==
    /\ os # Moved
    /\ \E n \in 0..MaxReserve :
        /\ OsString_capacity(OsString_reserve_exact(os, n)) <= MaxCap
        /\ os' = OsString_reserve_exact(os, n)
        /\ out' = [kind |-> "reserve_exact", n |-> n, before |-> os]
    /\ UNCHANGED ioVars

\* os.shrink_to_fit()
OsShrinkToFit ==
    /\ os # Moved
    /\ os' = OsString_shrink_to_fit(os)
    /\ out' = [kind |-> "shrink_to_fit", before |-> os]
    /\ UNCHANGED ioVars

\* the conversions of tests::into_boxed and tests::into_rc on os_str = &*os:
\* the borrowed view and an owned copy of it, each into Box, Rc and Arc, and
\* the box of the owned copy back into an owned string; os is only borrowed
OsShare ==
    /\ os # Moved
    /\ LET os_str == OsString_deref(os) IN
        out' = [kind |-> "share",
                boxed |-> Box_from_OsStr(os_str),
                rc |-> OsStr_into_Rc(os_str),
                arc |-> OsStr_into_Arc(os_str),
                boxed2 |-> Box_from_OsString(OsStr_to_owned(os_str)),
                rc2 |-> OsString_into_Rc(OsStr_to_owned(os_str)),
                arc2 |-> OsString_into_Arc(OsStr_to_owned(os_str)),
                os_string |-> OsStr_into_os_string(
                                 OsString_into_boxed_os_str(OsStr_to_owned(os_str)))]
    /\ UNCHANGED <<os, ioVars>>

\* os converted into Box<OsStr>, Rc<OsStr> or Arc<OsStr>: consumes os
OsInto ==
    /\ os # Moved
    /\ \E form \in {"box", "rc", "arc"} :
        out' = [kind |-> "into", form |-> form, self |-> os,
                res |-> CASE form = "box" -> Box_from_OsString(os)
                          [] form = "rc" -> OsString_into_Rc(os)
                          [] form = "arc" -> OsString_into_Arc(os),
                back |-> IF form = "box"
                         THEN OsString_from_Box(Box_from_OsString(os))
                         ELSE Moved]
    /\ os' = Moved
    /\ UNCHANGED ioVars

\* OsString::new(), OsString::default(), <&OsStr>::default() and
\* <Box<OsStr>>::default(), as in tests::test_os_string_default,
\* tests::test_os_str_default and tests::boxed_default
OsDefaults ==
    /\ out' = [kind |-> "defaults",
               new |-> OsString_new,
               os_string |-> OsString_default,
               os_str |-> OsStr_default,
               boxed |-> Box_default]
    /\ UNCHANGED <<os, ioVars>>

\* os.to_string_lossy(), next to os.to_str(); os is only borrowed
OsToStringLossy ==
    /\ os # Moved
    /\ out' = [kind |-> "to_string_lossy",
               res |-> OsStr_to_string_lossy(OsString_deref(os)),
               to_str |-> OsStr_to_str(OsString_deref(os))]
    /\ UNCHANGED <<os, ioVars>>

\* s.clone_into(&mut os)
OsCloneInto ==
    /\ os # Moved
    /\ \E s \in PushArgs :
        /\ OsString_capacity(OsStr_clone_into(s, os)) <= MaxCap
        /\ os' = OsStr_clone_into(s, os)
        /\ out' = [kind |-> "clone_into", s |-> s, before |-> os]
    /\ UNCHANGED ioVars

IoIdle ==
    /\ pc = "start"
    /\ pre = <<>>
    /\ buf = <<>>
    /\ cap = 0
    /\ zeroing = TRUE
    /\ start_len = 0
    /\ g_len = 0
    /\ ret = [kind |-> "none"]
    /\ produced = <<>>
    /\ reads = <<>>

InitBridge == IoIdle /\ InitOs

NextOs ==
    \/ OsFromString
    \/ OsFromInner
    \/ OsIntoString
    \/ OsCompare
    \/ OsCompareStr
    \/ OsWithCapacity
    \/ OsPush
    \/ OsClear
    \/ OsReserve
    \/ OsReserveExact
    \/ OsShrinkToFit
    \/ OsShare
    \/ OsInto
    \/ OsDefaults
    \/ OsToStringLossy
    \/ OsCloneInto

SpecOs == InitBridge /\ [][NextOs]_vars

OsIdle ==
    /\ os = [bytes |-> <<>>, cap |-> 0]
    /\ out = [kind |-> "none"]

Init == InitIo /\ OsIdle

Next ==
    \/ Enter
    \/ Grow
    \/ NoGrow
    \/ ReadOkZero
    \/ ReadOkN
    \/ ReadInterrupted
    \/ ReadErr
    \/ ReadPanic

Spec == Init /\ [][Next]_vars

\* A reader that keeps the provided Read::initializer: Initializer::zeroing().
InitRetry == Init /\ zeroing

\* read_to_end with a source that may go on reporting Interrupted; the
\* program is sequential and every read call comes back, so a step is taken
\* whenever one is possible.
NextRetry ==
    \/ Enter
    \/ Grow
    \/ NoGrow
    \/ ReadOkZero
    \/ ReadOkN
    \/ ReadInterrupted
    \/ ReadInterruptedAgain
    \/ ReadErr
    \/ ReadPanic

SpecRetry == InitRetry /\ [][NextRetry]_vars /\ WF_vars(NextRetry)

(* ---------------------------------------------------------------------- *)
(* Properties                                                              *)
(* ---------------------------------------------------------------------- *)
NumInterrupted == Cardinality({i \in 1..Len(reads) : reads[i] = INTERRUPTED})
ReturnedOk == pc = "done" /\ ret.kind = "ok"
ReturnedErr == pc = "done" /\ ret.kind = "err"

\* a is lexicographically less than b: at the first index where they differ
\* a has the smaller element, or a is a proper prefix of b.
LexLess(a, b) ==
    \E k \in 0..Min(Len(a), Len(b)) :
        /\ \A i \in 1..k : a[i] = b[i]
        /\ \/ k = Len(a) /\ k < Len(b)
           \/ k < Len(a) /\ k < Len(b) /\ a[k + 1] < b[k + 1]

\* b is not the native form of any Unicode string.
NotUnicode(b) == \A s \in SeqsUpTo(Chars, Len(b)) : Utf8Encode(s) # b

\* C1: when read_to_end returns Ok(n), the buffer is its pre-existing content
\* followed by exactly the n bytes the source produced, and its length is the
\* starting length plus n.
C1_OkBufferIsPrefixPlusProduced ==
    ReturnedOk =>
        /\ buf = pre \o produced
        /\ Len(buf) = start_len + ret.n

\* C2: when read fails with a non-Interrupted error after successful reads,
\* read_to_end returns that error and the buffer is exactly its pre-existing
\* content followed by the bytes of the successful reads.
C2_ErrBufferIsPrefixPlusProduced ==
    (ReturnedErr /\ produced # <<>>) =>
        /\ ret.e = OTHER_ERROR
        /\ buf = pre \o produced

\* C3: when read terminates abruptly, the buffer's length is rolled back to
\* the length recorded by the guard, so nothing of the exposed tail is visible.
C3_UnwindRollsBack ==
    pc = "unwound" => Len(buf) = g_len

\* C4: an Interrupted result is never returned; it leaves the recorded
\* length, the buffer and its capacity unchanged and read is invoked again;
\* the result is Ok(k) for the k bytes produced, whatever the interruptions.
C4_InterruptedIsTransparent ==
    [][ /\ (reads' # reads /\ reads'[Len(reads')] = INTERRUPTED) =>
              (pc' = "loop" /\ UNCHANGED <<g_len, buf, cap, ret, produced>>)
        /\ (pc = "loop" /\ reads # <<>> /\ reads[Len(reads)] = INTERRUPTED) =>
              (pc' = "read" /\ UNCHANGED <<g_len, buf, cap, ret, produced>>)
        /\ (ret'.kind = "err" => ret'.e # INTERRUPTED)
        /\ (pc' = "done" /\ ret'.kind = "ok") =>
              /\ ret'.n = Len(produced')
              /\ SubSeq(buf', 1, start_len' + ret'.n) = pre' \o produced'
      ]_vars

C4_Witness ==
    /\ ReturnedOk
    /\ NumInterrupted >= 2
    /\ reads[1] = INTERRUPTED
    /\ ret.n > 0

\* C5: Ok(n) carries the sum of the positive counts read returned, without
\* the length of the pre-existing content, and the first zero-byte result is
\* the last read call.
C5_OkIsSumOfCounts ==
    ReturnedOk =>
        /\ ret.n = SumPos(reads)
        /\ reads[Len(reads)] = 0
        /\ \A i \in 1..(Len(reads) - 1) : reads[i] # 0

C5_Witness ==
    /\ ReturnedOk
    /\ pre # <<>>
    /\ Cardinality({i \in 1..Len(reads) : reads[i] > 0}) >= 2

\* C6: the first start_len bytes of the buffer keep their values at entry at
\* every point of the call and in every outcome, and every region handed to
\* read starts at or after start_len.
C6_PrefixUntouched ==
    pc # "start" =>
        /\ start_len = Len(pre)
        /\ g_len >= start_len
        /\ Len(buf) >= start_len
        /\ SubSeq(buf, 1, start_len) = pre

C6_Witness ==
    /\ pc = "done"
    /\ pre # <<>>
    /\ zeroing
    /\ produced # <<>>

\* C7: OsString::from(s) followed by into_string yields Ok(s).
C7_RoundTrip ==
    (out.kind = "into_string" /\ out.after.kind = "from_string") =>
        out.res = [ok |-> TRUE, s |-> out.after.s]

C7_Witness ==
    /\ out.kind = "into_string"
    /\ out.after.kind = "from_string"
    /\ Len(out.after.s) = MaxChars
    /\ \E i \in 1..Len(out.after.s) : out.after.s[i] > 127
    /\ out.res.ok

\* C8: into_string on content that is not valid in the backend's encoding
\* returns Err with an owned native string equal to the original.
C8_ErrReturnsOriginal ==
    (out.kind = "into_string" /\ NotUnicode(out.self.inner.bytes)) =>
        /\ ~out.res.ok
        /\ out.res.err = out.self
        /\ OsString_deref(out.res.err) = OsString_deref(out.self)

C8_Witness ==
    /\ out.kind = "into_string"
    /\ NotUnicode(out.self.inner.bytes)
    /\ Len(out.self.inner.bytes) >= 2
    /\ ~out.res.ok

\* C9: a < b exactly when the bytes of a are lexicographically less than
\* those of b; exactly one of a < b, a == b, a > b holds, decodable or not;
\* the OsString and the mixed orderings agree with the OsStr ordering.
C9_ByteWiseTotalOrder ==
    out.kind = "cmp" =>
        LET a == out.self.inner.bytes
            b == out.other.inner.bytes
            ord == IF LexLess(a, b) THEN "Less"
                   ELSE IF LexLess(b, a) THEN "Greater" ELSE "Equal"
        IN  /\ out.str_lt = LexLess(a, b)
            /\ out.str_gt = LexLess(b, a)
            /\ out.str_eq = (a = b)
            /\ out.str_le = (LexLess(a, b) \/ a = b)
            /\ out.str_ge = (LexLess(b, a) \/ a = b)
            /\ Cardinality({x \in {"lt", "eq", "gt"} :
                    \/ x = "lt" /\ out.str_lt
                    \/ x = "eq" /\ out.str_eq
                    \/ x = "gt" /\ out.str_gt}) = 1
            /\ out.str_cmp = ord
            /\ out.str_pcmp = [some |-> TRUE, ord |-> ord]
            /\ out.string_lt = out.str_lt
            /\ out.string_le = out.str_le
            /\ out.string_gt = out.str_gt
            /\ out.string_ge = out.str_ge
            /\ out.string_eq = out.str_eq
            /\ out.string_cmp = out.str_cmp
            /\ out.string_pcmp = out.str_pcmp
            /\ out.mixed_eq = out.str_eq
            /\ out.mixed_eq_rev = out.str_eq
            /\ out.mixed_pcmp = out.str_pcmp
            /\ out.mixed_pcmp_rev = out.str_pcmp

C9_Witness ==
    /\ out.kind = "cmp"
    /\ NotUnicode(out.self.inner.bytes)
    /\ NotUnicode(out.other.inner.bytes)
    /\ Len(out.self.inner.bytes) > Len(out.other.inner.bytes)
    /\ Len(out.other.inner.bytes) >= 1
    /\ out.str_lt

C11_HashConsistentWithEq ==
    out.kind = "cmp" =>
        /\ (out.str_eq => out.str_hash = out.str_hash_other)
        /\ (out.string_eq => out.string_hash = out.string_hash_other)
        /\ (out.mixed_eq => out.string_hash = out.str_hash_other)
        /\ out.string_hash = out.str_hash
        /\ out.string_hash_other = out.str_hash_other

C11_Witness ==
    /\ out.kind = "cmp"
    /\ out.string_eq
    /\ NotUnicode(out.self.inner.bytes)
    /\ Len(out.self.inner.bytes) >= 2
    /\ out.self.inner.cap # out.other.inner.cap
    /\ out.string_hash = out.string_hash_other

\* C12: after reserve(n) the capacity is at least the capacity before and at
\* least len + n; after reserve_exact(n) it is at least len + n; whatever
\* push, clear, reserve and reserve_exact calls came before.
C12_ReserveCapacity ==
    /\ out.kind = "reserve" =>
        /\ OsString_capacity(os) >= OsString_capacity(out.before)
        /\ OsString_capacity(os) >= OsStr_len(OsString_deref(out.before)) + out.n
        /\ OsString_capacity(os) >= out.n
        /\ OsString_deref(os) = OsString_deref(out.before)
    /\ out.kind = "reserve_exact" =>
        /\ OsString_capacity(os) >= OsStr_len(OsString_deref(out.before)) + out.n
        /\ OsString_deref(os) = OsString_deref(out.before)

C12_Witness ==
    /\ out.kind = "reserve"
    /\ out.n = MaxReserve
    /\ OsStr_len(OsString_deref(out.before)) >= 2
    /\ OsString_capacity(os) > OsString_capacity(out.before)

\* C13: after k pushes of single-unit strings onto an empty owned string the
\* length is k and the capacity at least k; every push adds the length of the
\* pushed string to the length, and the length never exceeds the capacity.
C13_PushLength ==
    /\ os # Moved => OsStr_len(OsString_deref(os)) <= OsString_capacity(os)
    /\ out.kind = "push" =>
        /\ OsStr_len(OsString_deref(os))
              = OsStr_len(OsString_deref(out.before)) + OsStr_len(out.s)
        /\ OsString_deref(os) = OsString_deref(out.before) \o out.s
        /\ out.run > 0 =>
              /\ OsStr_len(OsString_deref(os)) = out.run
              /\ OsString_capacity(os) >= out.run

C13_Witness ==
    /\ out.kind = "push"
    /\ out.run = 4
    /\ OsStr_len(OsString_deref(os)) = 4
    /\ NotUnicode(OsString_deref(os))

C15_PushWithinCapacity ==
    out.kind = "push" =>
        /\ OsStr_len(OsString_deref(os)) <= OsString_capacity(out.before) =>
              OsString_capacity(os) = OsString_capacity(out.before)
        /\ (out.wc >= 0 /\ OsStr_len(OsString_deref(os)) <= out.wc) =>
              OsString_capacity(os) = out.wc

C15_Witness ==
    /\ out.kind = "push"
    /\ out.wc = 2
    /\ OsStr_len(OsString_deref(os)) = 2
    /\ OsStr_len(OsString_deref(out.before)) = 1
    /\ OsString_capacity(os) = 2

\* C16: a native string converted, as an owned string or as a borrowed view,
\* into the boxed, the counted and the atomically counted form gives three
\* values byte-wise equal to it and to one another, and the boxed form
\* converted back with into_os_string is byte-wise equal to it.
C16_SharedFormsEqual ==
    /\ out.kind = "share" =>
        LET x == OsString_deref(os)
            forms == {out.boxed, out.rc, out.arc, out.boxed2, out.rc2, out.arc2}
        IN  /\ \A p \in forms : /\ OsStr_eq(Shared_deref(p), x)
                                /\ OsStr_eq(x, Shared_deref(p))
                                /\ Shared_deref(p) = x
            /\ \A p, q \in forms : OsStr_eq(Shared_deref(p), Shared_deref(q))
            /\ OsStr_eq(OsString_deref(out.os_string), x)
            /\ OsString_eq(out.os_string, os)
    /\ out.kind = "into" =>
        /\ OsStr_eq(Shared_deref(out.res), OsString_deref(out.self))
        /\ out.form = "box" => OsString_eq(out.back, out.self)

C16_Witness ==
    /\ out.kind = "share"
    /\ NotUnicode(OsString_deref(os))
    /\ Len(OsString_deref(os)) >= 2
    /\ OsString_capacity(os) > Len(OsString_deref(os))
    /\ OsString_deref(out.os_string) = OsString_deref(os)

\* C17: OsString::new(), OsString::default(), the default &OsStr and the
\* default Box<OsStr> are empty (is_empty() holds, len() is 0), byte-wise
\* equal to one another, and equal to the Unicode empty string.
C17_DefaultsAreEmpty ==
    out.kind = "defaults" =>
        LET views == {OsString_deref(out.new), OsString_deref(out.os_string),
                      out.os_str, Shared_deref(out.boxed)}
        IN  /\ \A v \in views : /\ OsStr_is_empty(v)
                                /\ OsStr_len(v) = 0
                                /\ OsStr_eq_str(v, <<>>)
                                /\ Str_eq_OsStr(<<>>, v)
            /\ \A v, w \in views : OsStr_eq(v, w)
            /\ OsString_eq(out.new, out.os_string)
            /\ OsString_eq_str(out.new, <<>>)
            /\ OsString_eq_str(out.os_string, <<>>)
            /\ Str_eq_OsString(<<>>, out.os_string)
            /\ OsString_eq_OsStr(out.os_string, out.os_str)
            /\ OsStr_eq_OsString(out.os_str, out.new)

C17_Witness ==
    /\ out.kind = "defaults"
    /\ os # Moved
    /\ Len(os.inner.bytes) >= 1
    /\ OsStr_is_empty(out.os_str)
    /\ OsStr_is_empty(Shared_deref(out.boxed))
    /\ OsStr_is_empty(OsString_deref(out.os_string))

IsUnicodeString(s) ==
    \A i \in 1..Len(s) : /\ s[i] >= 0
                         /\ s[i] <= 1114111
                         /\ ~(s[i] >= 55296 /\ s[i] <= 57343)

\* C19: to_string_lossy returns a Unicode string for every native string
\* content, also for content that is invalid under the backend encoding (for
\* which to_str returns None and into_string returns Err).
C19_LossyIsTotal ==
    out.kind = "to_string_lossy" =>
        /\ out.res.s # Invalid
        /\ IsUnicodeString(out.res.s)
        /\ Utf8Decode(Utf8Encode(out.res.s)) = out.res.s
        /\ out.to_str.some =>
              /\ out.res.s = out.to_str.s
              /\ OsString_into_string(os).ok
        /\ ~out.to_str.some =>
              /\ ~OsString_into_string(os).ok
              /\ \E i \in 1..Len(out.res.s) : out.res.s[i] = REPLACEMENT_CHARACTER
              /\ Len(out.res.s) <= Len(OsString_deref(os))

C19_Witness ==
    /\ out.kind = "to_string_lossy"
    /\ ~out.to_str.some
    /\ ~OsString_into_string(os).ok
    /\ Len(out.res.s) = 2
    /\ out.res.s[1] = 65
    /\ out.res.s[2] = REPLACEMENT_CHARACTER

\* C20: after s.clone_into(&mut t) the target t is byte-wise equal to s,
\* whatever it held before, and its capacity is not smaller than before.
C20_CloneIntoReusesTarget ==
    out.kind = "clone_into" =>
        /\ OsStr_eq(out.s, OsString_deref(os))
        /\ OsStr_eq_OsString(out.s, os)
        /\ OsString_deref(os) = out.s
        /\ OsString_capacity(os) >= OsString_capacity(out.before)

C20_Witness ==
    /\ out.kind = "clone_into"
    /\ Len(OsString_deref(out.before)) >= 2
    /\ Len(out.s) = 1
    /\ NotUnicode(out.s)
    /\ OsString_capacity(out.before) >= 3
    /\ OsString_capacity(os) = OsString_capacity(out.before)
    /\ OsString_deref(os) = out.s

\* C21: after clear() the length is 0, is_empty() holds and the string equals
\* the empty Unicode string, while the capacity is unchanged; after any
\* sequence of push and clear calls is_empty() holds exactly when len() is 0.
C21_ClearKeepsCapacity ==
    /\ os # Moved =>
          (OsStr_is_empty(OsString_deref(os)) <=> OsStr_len(OsString_deref(os)) = 0)
    /\ out.kind = "clear" =>
        /\ OsStr_len(OsString_deref(os)) = 0
        /\ OsStr_is_empty(OsString_deref(os))
        /\ OsString_eq_str(os, <<>>)
        /\ Str_eq_OsString(<<>>, os)
        /\ OsString_capacity(os) = OsString_capacity(out.before)

C21_Witness ==
    /\ out.kind = "clear"
    /\ OsStr_len(OsString_deref(out.before)) >= 2
    /\ ~OsStr_is_empty(OsString_deref(out.before))
    /\ OsString_capacity(out.before) >= 3
    /\ OsStr_is_empty(OsString_deref(os))
    /\ OsString_capacity(os) >= 3

\* C22: in each iteration the buffer is grown exactly when the recorded length
\* equals the buffer's logical length; growth reserves room for at least 32
\* more units and extends the logical length to the full capacity; the region
\* handed to read is never empty; an iteration with unfilled exposed space
\* left (also a retry after Interrupted) does not grow.
C22_GrowsExactlyWhenFull ==
    [][ /\ (pc = "loop" /\ pc' = "read") =>
            IF g_len = Len(buf)
            THEN /\ cap' >= Len(buf) + GROW
                 /\ cap' >= cap
                 /\ Len(buf') = cap'
                 /\ Len(buf') >= Len(buf) + GROW
                 /\ SubSeq(buf', 1, g_len) = buf
            ELSE /\ buf' = buf
                 /\ cap' = cap
        /\ (pc = "loop" /\ reads # <<>> /\ reads[Len(reads)] = INTERRUPTED) =>
              (buf' = buf /\ cap' = cap)
        /\ pc' = "read" => /\ Len(buf') > g_len'
                           /\ Len(SubSeq(buf', g_len' + 1, Len(buf'))) >= 1
      ]_vars

C22_Witness ==
    /\ pc = "read"
    /\ Len(reads) = 2
    /\ reads[1] = GROW
    /\ reads[2] = INTERRUPTED
    /\ g_len = GROW
    /\ Len(buf) = 2 * GROW
    /\ cap = 2 * GROW

\* C23: for a reader whose initializer is the default (zeroing), every byte of
\* a region newly exposed by a growth step is zero when read is invoked on
\* it; only a reader whose initializer is the opt-out (nop) form is handed a
\* region that has not been zero-filled.
C23_NewRegionZeroed ==
    [][ /\ (pc = "loop" /\ pc' = "read" /\ g_len = Len(buf) /\ zeroing) =>
              \A i \in (Len(buf) + 1)..Len(buf') : buf'[i] = 0
        /\ (pc' = "read" /\ \E i \in (g_len' + 1)..Len(buf') : buf'[i] # 0) =>
              ~zeroing'
      ]_vars

C23_Witness ==
    /\ pc = "read"
    /\ zeroing
    /\ reads = <<GROW>>
    /\ g_len = GROW
    /\ Len(buf) = 2 * GROW
    /\ buf[1] # 0
    /\ \A i \in (GROW + 1)..(2 * GROW) : buf[i] = 0

\* A step in which read reports Interrupted.
InterruptedStep == ReadInterrupted \/ ReadInterruptedAgain

\* C24: read_to_end returns for every source that, after finitely many
\* positive reads and Interrupted results, returns a zero-byte result or
\* another error; retries are not bounded, and while a source goes on
\* reporting Interrupted read_to_end neither returns nor changes the buffer.
C24_ReturnsUnlessInterruptedForever ==
    /\ (<>[][~InterruptedStep]_vars) => <>(pc \in {"done", "unwound"})
    /\ ([]<><<InterruptedStep>>_vars) => [](pc # "done" /\ ret.kind = "none")
    /\ [][InterruptedStep =>
            /\ pc' = "loop"
            /\ UNCHANGED <<buf, cap, g_len, ret, produced>>]_vars
    /\ [][(pc = "loop" /\ reads # <<>> /\ reads[Len(reads)] = AGAIN) =>
            /\ pc' = "read"
            /\ UNCHANGED <<buf, cap, g_len, ret, produced>>]_vars

C24_Witness ==
    /\ ReturnedOk
    /\ \E i \in 1..Len(reads) : reads[i] = AGAIN
    /\ NumInterrupted = MaxIntr
    /\ ret.n > 0

\* C25: with every read count no larger than the region read was given, at
\* every point of the loop start_len <= recorded length <= logical length <=
\* capacity, and the recorded length never decreases; so the subtraction
\* recorded length - start_len does not underflow and the region that starts
\* at the recorded length is in bounds.
C25_LengthsOrdered ==
    [][ /\ pc' # "start" =>
            /\ start_len' <= g_len'
            /\ g_len' <= Len(buf')
            /\ Len(buf') <= cap'
            /\ g_len' - start_len' >= 0
            /\ (pc' = "done" /\ ret'.kind = "ok") => ret'.n >= 0
        /\ pc # "start" => (g_len' >= g_len /\ start_len' = start_len)
      ]_vars

C25_Witness ==
    /\ ReturnedOk
    /\ start_len = 1
    /\ Len(reads) >= 3
    /\ g_len > GROW + 1
    /\ g_len < Len(buf)
    /\ Len(buf) = cap
    /\ ret.n = g_len - start_len

TypeOK ==
    /\ pc \in {"start", "loop", "read", "done", "unwound"}
    /\ cap >= Len(buf)
====
